---- MODULE Spec2Model ----
(***************************************************************************)
(* Model of ReactBridge (ReactUbuntu/runtime/src/reactbridge.cpp): the     *)
(* module registry, the batched call dispatch (processResult) and the      *)
(* init()/reload() life cycle, together with the Qt event loop pieces the  *)
(* bridge relies on (single shot timers, deleteLater, executor callbacks). *)
(*                                                                         *)
(* The bridge runs on one thread: every slot, timer lambda and executor    *)
(* callback runs to completion, so each is one action.  Operations are     *)
(* written as operators from a bridge state record to a bridge state       *)
(* record, because native handlers invoked from processResult receive the  *)
(* bridge and can call reload() or enqueueJSCall() in the middle of the    *)
(* dispatch loop.                                                          *)
(***************************************************************************)
EXTENDS Integers, Sequences, FiniteSets, TLC

VARIABLES
  ready,          \* ReactBridgePrivate::ready
  executorName,   \* ReactBridgePrivate::executorName
  executor,       \* ReactBridgePrivate::executor (0 is nullptr)
  nam,            \* ReactBridgePrivate::nam # nullptr
  sourceCode,     \* ReactBridgePrivate::sourceCode (0 is nullptr)
  modules,        \* ReactBridgePrivate::modules : QMap<int, ReactModuleData*>
  gen,            \* number of init()/reload() cycles started so far
  numExec,        \* executor objects constructed so far
  numSrc,         \* ReactSourceCode objects constructed so far
  deferred,       \* executors with a deleteLater() pending
  destroyed,      \* executors whose deferred delete has run
  connections,    \* executor -> number of connections of applicationScriptDone
  execOps,        \* executor -> operations the bridge issued to it, in order
  calls,          \* executor -> executeJSCall requests not yet answered
  scripts,        \* executor -> application scripts still executing
  loading,        \* ReactSourceCode objects with a load in flight
  loaded,         \* ReactSourceCode objects whose load has completed
  scriptTimers,   \* pending 200 ms timers of sourcesFinished
  drainTimers,    \* pending 0 ms timers of applicationScriptDone
  numCalls,       \* executeJSCall requests issued by native code so far
  crashed,        \* the process has aborted
  redboxShown,    \* the redbox shows "Failed to load source code"
  readyChanged,   \* values of ready at each readyChanged emission
  readyBy,        \* the flushedQueue request whose callback last set ready
  lastDispatch,   \* what the last processResult run did
  lastReload,     \* the bridge state at the return of the last reload()
  deleted,        \* cycles whose ReactModuleData objects reload() has deleted
  built,          \* cycle -> the registry initModules built in it
  registrations,  \* cycle -> what the loop of initModules did with each object
  invoked         \* every native handler invocation so far: batch and index

vars == << ready, executorName, executor, nam, sourceCode, modules, gen,
           numExec, numSrc, deferred, destroyed, connections, execOps, calls,
           scripts, loading, loaded, scriptTimers, drainTimers, numCalls,
           crashed, redboxShown, readyChanged, readyBy, lastDispatch,
           lastReload, deleted, built, registrations, invoked >>

-----------------------------------------------------------------------------
(* Bounds of the model *)

MaxCycles == 2      \* init() plus reload() runs
MaxCalls == 1       \* executeJSCall requests issued by native code
MaxLen == 2         \* entries of a batch in the life cycle specification
MaxBatchLen == 3    \* entries of a batch in the dispatch specification
MaxPlugins == 1     \* module objects found in the plugins path
MaxLoaded == 0      \* module objects of the components loader

NullExec == 0
NullSrc == 0

Execs == 1..MaxCycles
Srcs == 1..MaxCycles

\* What a read through a dangling pointer or past the end of a list can do.
UBOutcomes == {"crash", "zero", "junk"}

ExecutorNames == {"ReactNetExecutor", "Unregistered", "Unconstructible"}

RECURSIVE SeqsUpTo(_, _)
SeqsUpTo(S, n) ==
  IF n = 0 THEN {<< >>}
  ELSE LET shorter == SeqsUpTo(S, n - 1)
       IN  shorter \cup {Append(q, x) : q \in {r \in shorter : Len(r) = n - 1}, x \in S}

-----------------------------------------------------------------------------
(* The bridge and its Qt environment as one record *)

S ==
  [ready |-> ready, executorName |-> executorName, executor |-> executor,
   nam |-> nam, sourceCode |-> sourceCode, modules |-> modules, gen |-> gen,
   numExec |-> numExec, numSrc |-> numSrc, deferred |-> deferred,
   destroyed |-> destroyed, connections |-> connections, execOps |-> execOps,
   calls |-> calls, scripts |-> scripts, loading |-> loading,
   loaded |-> loaded, scriptTimers |-> scriptTimers,
   drainTimers |-> drainTimers, numCalls |-> numCalls, crashed |-> crashed,
   redboxShown |-> redboxShown, readyChanged |-> readyChanged,
   readyBy |-> readyBy, lastDispatch |-> lastDispatch,
   lastReload |-> lastReload, deleted |-> deleted,
   built |-> built, registrations |-> registrations, invoked |-> invoked,
   overflow |-> FALSE, envUsed |-> FALSE, effUsed |-> FALSE, thrown |-> FALSE]

Commit(t) ==
  /\ ready' = t.ready
  /\ executorName' = t.executorName
  /\ executor' = t.executor
  /\ nam' = t.nam
  /\ sourceCode' = t.sourceCode
  /\ modules' = t.modules
  /\ gen' = t.gen
  /\ numExec' = t.numExec
  /\ numSrc' = t.numSrc
  /\ deferred' = t.deferred
  /\ destroyed' = t.destroyed
  /\ connections' = t.connections
  /\ execOps' = t.execOps
  /\ calls' = t.calls
  /\ scripts' = t.scripts
  /\ loading' = t.loading
  /\ loaded' = t.loaded
  /\ scriptTimers' = t.scriptTimers
  /\ drainTimers' = t.drainTimers
  /\ numCalls' = t.numCalls
  /\ crashed' = t.crashed
  /\ redboxShown' = t.redboxShown
  /\ readyChanged' = t.readyChanged
  /\ readyBy' = t.readyBy
  /\ lastDispatch' = t.lastDispatch
  /\ lastReload' = t.lastReload
  /\ deleted' = t.deleted
  /\ built' = t.built
  /\ registrations' = t.registrations
  /\ invoked' = t.invoked

-----------------------------------------------------------------------------
(* Module objects and the registry *)

\* A QObject handed to initModules: its module name, whether
\* qobject_cast<ReactModuleInterface*> succeeds, and how many methods it exports.
Obj(name, n) == [name |-> name, iface |-> TRUE, methods |-> n]

InvalidObj == [name |-> "Invalid", iface |-> FALSE, methods |-> 0]

PluginObj == Obj("Plugin", 1)

internalModules ==
  << Obj("ReactTiming", 2), Obj("ReactAppState", 1),
     Obj("ReactAsyncLocalStorage", 1), Obj("ReactNetworking", 1),
     Obj("ReactNetInfo", 1), Obj("ReactViewManager", 1),
     Obj("ReactRawTextManager", 1), Obj("ReactTextManager", 1),
     Obj("ReactImageManager", 1), Obj("ReactExceptionsManager", 1) >>

\* env.loader: what UbuntuComponentsLoader::availableModules() returns;
\* env.so: what the loaders found in pluginsPath return.
pluginModules(env) ==
  env.loader \o
  << Obj("UbuntuScrollViewManager", 1), Obj("UbuntuNavigatorManager", 3),
     Obj("UbuntuPageManager", 1), Obj("UbuntuTextFieldManager", 1),
     Obj("UbuntuDatePickerManager", 1) >> \o
  env.so

\* What the environment decides during one slot: the module objects the
\* loaders return and the outcome of undefined behaviour.
Envs ==
  [loader : SeqsUpTo({PluginObj, InvalidObj}, MaxLoaded),
   so : SeqsUpTo({PluginObj, InvalidObj}, MaxPlugins),
   ub : UBOutcomes]

\* The null ReactModuleData*.
NullMD == [gen |-> 0, name |-> "", methods |-> 0]

\* new ReactModuleData(o), built in cycle g.
ReactModuleData(o, g) == [gen |-> g, name |-> o.name, methods |-> o.methods]

\* ReactModuleData::id(): the next unused integer of the registry being built.
moduleDataId(m) ==
  CHOOSE n \in 0..Cardinality(DOMAIN m) :
    /\ n \notin DOMAIN m
    /\ \A k \in 0..(n - 1) : k \in DOMAIN m

\* QMap::insert(key, value)
insert(m, key, value) ==
  [k \in DOMAIN m \cup {key} |-> IF k = key THEN value ELSE m[k]]

EmptyMap == [k \in {} |-> NullMD]

\* No ID: the object got no ReactModuleData.
NoId == -1

\* No initModules run.
NoRegistration == [objects |-> << >>, log |-> << >>]

\* What the loop did with object o: module->setBridge(this) and the ID of its
\* ReactModuleData, or the warning.
Registered(o, id) == [obj |-> o, setBridge |-> TRUE, id |-> id, warned |-> FALSE]

Skipped(o) == [obj |-> o, setBridge |-> FALSE, id |-> NoId, warned |-> TRUE]

\* Mutant: the loop ends at the first object without the module interface.
RECURSIVE registerFrom_stop(_, _, _, _)
registerFrom_stop(list, i, r, g) ==
  IF i > Len(list) \/ ~list[i].iface THEN r
  ELSE registerFrom_stop(list, i + 1,
         [map |-> insert(r.map, moduleDataId(r.map), ReactModuleData(list[i], g)),
          log |-> Append(r.log, Registered(list[i], moduleDataId(r.map)))], g)

\* Mutant: every descriptor is stored under the ID of the first one.
RECURSIVE registerFrom_sameId(_, _, _, _)
registerFrom_sameId(list, i, r, g) ==
  IF i > Len(list) THEN r
  ELSE IF list[i].iface
       THEN registerFrom_sameId(list, i + 1,
              [map |-> insert(r.map, 0, ReactModuleData(list[i], g)),
               log |-> Append(r.log, Registered(list[i], 0))], g)
       ELSE registerFrom_sameId(list, i + 1,
              [r EXCEPT !.log = Append(@, Skipped(list[i]))], g)

\* The registration loop of initModules, from object i of list on; r.map is
\* d->modules and r.log what the loop did so far.
RECURSIVE registerFrom(_, _, _, _)
registerFrom(list, i, r, g) ==
  IF i > Len(list) THEN r
  ELSE IF list[i].iface
       THEN registerFrom(list, i + 1,
              [map |-> insert(r.map, moduleDataId(r.map), ReactModuleData(list[i], g)),
               log |-> Append(r.log, Registered(list[i], moduleDataId(r.map)))], g)
       ELSE registerFrom(list, i + 1,
              [r EXCEPT !.log = Append(@, Skipped(list[i]))], g)

\* Mutant: the UI manager is appended before the other two special modules.
specialModules_uiFirst ==
  << Obj("ReactUIManager", 2), Obj("ReactSourceCode", 1), Obj("ReactImageLoader", 1) >>

specialModules ==
  << Obj("ReactSourceCode", 1), Obj("ReactImageLoader", 1), Obj("ReactUIManager", 2) >>

\* QObjectList modules of initModules
moduleObjects(env) == internalModules \o pluginModules(env) \o specialModules

\* The modules initModules is about to register become the registry of cycle
\* s.gen, and a new ReactSourceCode becomes d->sourceCode.
registered(s, list, r) ==
  [s EXCEPT !.envUsed = TRUE,
            !.numSrc = s.numSrc + 1,
            !.sourceCode = s.numSrc + 1,
            !.modules = r.map,
            !.built[s.gen] = r.map,
            !.registrations[s.gen] = [objects |-> list, log |-> r.log]]

initModules(s, env) ==
  IF s.crashed THEN s
  ELSE registered(s, moduleObjects(env),
                  registerFrom(moduleObjects(env), 1,
                               [map |-> s.modules, log |-> << >>], s.gen))

-----------------------------------------------------------------------------
(* Executor selection, configuration injection and source loading *)

\* Mutant: the value is stored and the signal emitted without comparing.
setReady_always(s, v) ==
  [s EXCEPT !.ready = v, !.readyChanged = Append(@, v)]

setReady(s, v) ==
  IF s.ready = v THEN s
  ELSE [s EXCEPT !.ready = v, !.readyChanged = Append(@, v)]

\* An operation issued to the executor d->executor points to.  A null pointer
\* aborts the process; a pointer to a destroyed executor is undefined
\* behaviour: the process aborts or the operation is lost.
issue(s, op, env) ==
  IF s.crashed THEN s
  ELSE IF s.executor = NullExec THEN [s EXCEPT !.crashed = TRUE]
  ELSE IF s.executor \in s.destroyed
       THEN [s EXCEPT !.crashed = (env.ub = "crash"), !.envUsed = TRUE]
  ELSE [s EXCEPT !.execOps[s.executor] = Append(@, op)]

\* QMetaType::type(executorName + "*") != QMetaType::UnknownType
executorTypeKnown(name) == name # "Unregistered"

\* metaObjectForType(type)->newInstance(...) cast to ReactExecutor*
newInstanceWorks(name) == name = "ReactNetExecutor"

\* A newly constructed executor becomes d->executor.
newExecutor(s) ==
  [s EXCEPT !.numExec = s.numExec + 1, !.executor = s.numExec + 1]

\* if (executorType != QMetaType::UnknownType) d->executor = ...newInstance(...)
namedExecutor(s) ==
  IF s.crashed \/ ~executorTypeKnown(s.executorName) THEN s
  ELSE IF newInstanceWorks(s.executorName) THEN newExecutor(s)
  ELSE [s EXCEPT !.executor = NullExec]

\* if (d->executor == nullptr) d->executor = new ReactNetExecutor(this)
defaultExecutor(s) ==
  IF s.crashed \/ s.executor # NullExec THEN s ELSE newExecutor(s)

\* connect(d->executor, SIGNAL(applicationScriptDone()), ...)
connected(s) ==
  IF s.crashed \/ s.executor \in s.destroyed THEN s
  ELSE [s EXCEPT !.connections[s.executor] = @ + 1]

\* d->executor->init()
executorInit(s, env) == issue(s, [op |-> "init", gen |-> s.gen], env)

setupExecutor(s, env) ==
  executorInit(connected(defaultExecutor(namedExecutor(s))), env)

\* Mutant: nothing is injected.
injectModules_none(s, env) == s

injectModules(s, env) ==
  issue(s, [op |-> "inject", gen |-> s.gen], env)

\* Mutant: the load is requested without looking at d->nam.
loadSource_always(s) ==
  IF s.crashed THEN s
  ELSE [s EXCEPT !.loading = @ \cup {s.sourceCode}]

loadSource(s) ==
  IF s.crashed \/ ~s.nam THEN s
  ELSE [s EXCEPT !.loading = @ \cup {s.sourceCode}]

\* A cycle of the bridge begins.
cycleBegun(s) == [s EXCEPT !.gen = @ + 1]

init(s, env) ==
  loadSource(injectModules(initModules(setupExecutor(cycleBegun(s), env), env), env))

\* d->executor->deleteLater()
deleteLater(s, env) ==
  IF s.crashed THEN s
  ELSE IF s.executor = NullExec THEN [s EXCEPT !.crashed = TRUE]
  ELSE IF s.executor \in s.destroyed
       THEN [s EXCEPT !.crashed = (env.ub = "crash"), !.envUsed = TRUE]
  ELSE [s EXCEPT !.deferred = @ \cup {s.executor}]

\* The cycles of the descriptors in the map m.
Gens(m) == {m[k].gen : k \in {j \in DOMAIN m : m[j] # NullMD}}

\* Mutant: the descriptors are deleted and their map entries are kept.
clearModules_keep(s) ==
  IF s.crashed THEN s
  ELSE [s EXCEPT !.deleted = @ \cup Gens(s.modules)]

\* for (auto& md : d->modules) delete md;  d->modules.clear();
clearModules(s) ==
  IF s.crashed THEN s
  ELSE [s EXCEPT !.deleted = @ \cup Gens(s.modules), !.modules = EmptyMap]

\* The part of the bridge state reload() and processResult are judged by.
Snapshot(s) ==
  [ready |-> s.ready, executor |-> s.executor, numExec |-> s.numExec,
   modules |-> s.modules, gen |-> s.gen]

\* What reload() leaves behind, beyond the snapshot.
Outcome(s) ==
  [deferred |-> s.deferred, deleted |-> s.deleted,
   injected |-> /\ s.executor \in Execs
                /\ \E k \in DOMAIN s.execOps[s.executor] :
                     s.execOps[s.executor][k] = [op |-> "inject", gen |-> s.gen],
   loadRequested |-> s.sourceCode \in s.loading]

NoSnapshot == [valid |-> FALSE]

\* reload() returns: s is the bridge it was called on, t the bridge it leaves.
reloaded(s, t) ==
  IF t.crashed THEN t
  ELSE [t EXCEPT !.lastReload = [valid |-> TRUE, pre |-> Snapshot(s),
                                 post |-> Snapshot(t), outcome |-> Outcome(t)]]

reload(s, env) ==
  reloaded(s,
    loadSource(injectModules(initModules(clearModules(
      setupExecutor(deleteLater(cycleBegun(setReady(s, FALSE)), env), env)),
      env), env)))

-----------------------------------------------------------------------------
(* Script calls and the dispatch of their batched results *)

\* The request waits in the executor until the script side answers it.
queued(s, call) ==
  IF s.crashed \/ s.executor \in s.destroyed THEN s
  ELSE [s EXCEPT !.calls[s.executor] = Append(@, call)]

\* d->executor->executeJSCall(name, args, callback)
executeJSCall(s, call, env) ==
  queued(issue(s, [op |-> "call", gen |-> s.gen], env), call)

enqueueJSCall(s, env) ==
  executeJSCall(s, [kind |-> "call", gen |-> s.gen, sig |-> << >>], env)

invokeAndProcess(s, env) ==
  executeJSCall(s, [kind |-> "call", gen |-> s.gen, sig |-> << >>], env)

\* What a native handler does with the bridge it is handed.
HandlerEffects == {"none", "reload", "enqueue"}

\* A native handler that raises an error: it throws a C++ exception.
HandlerErrors == {"throw"}

JunkInt == 40

NullDoc == [kind |-> "null"]
ObjectDoc == [kind |-> "object"]
ArrayDoc(fields) == [kind |-> "array", fields |-> fields]

FieldRequestModuleIDs == 1
FieldMethodIDs == 2
FieldParams == 3

\* list[i] of a QList; past the end the read is undefined behaviour.
at(list, i, env, junk) ==
  IF i <= Len(list) THEN [ok |-> TRUE, ub |-> FALSE, v |-> list[i]]
  ELSE IF env.ub = "crash" THEN [ok |-> FALSE, ub |-> TRUE]
  ELSE [ok |-> TRUE, ub |-> TRUE, v |-> junk[env.ub]]

JunkInts == [zero |-> 0, junk |-> JunkInt]
JunkLists == [zero |-> << >>, junk |-> << JunkInt >>]
JunkParams == [zero |-> << >>, junk |-> << "junk" >>]
JunkParamArrays == [zero |-> << >>, junk |-> << << "junk" >> >>]

\* The outcome r of a list read has been used.
readDone(s, r) ==
  [s EXCEPT !.envUsed = @ \/ r.ub, !.crashed = @ \/ ~r.ok]

\* ReactModuleData::method(index): null unless index names an exported method.
method(md, index) == index \in 0..(md.methods - 1)

\* d->modules[key] on the non-const QMap: a missing key is inserted with a
\* default-constructed (null) value.
lookup(m, key) ==
  IF key \in DOMAIN m THEN m ELSE insert(m, key, NullMD)

\* The number under which the batch being dispatched appears in invoked.
batchNumber(s) ==
  IF s.invoked = << >> THEN 1
  ELSE IF \E k \in DOMAIN s.lastDispatch.log : s.lastDispatch.log[k].what = "invoke"
       THEN s.invoked[Len(s.invoked)].batch
       ELSE s.invoked[Len(s.invoked)].batch + 1

logged(s, entry) ==
  [s EXCEPT !.lastDispatch.log = Append(@, entry),
            !.invoked = IF entry.what = "invoke"
                        THEN Append(@, [batch |-> batchNumber(s), i |-> entry.i])
                        ELSE @]

\* The native handler runs with the bridge as its context.  An exception
\* leaves the handler and every frame above it that does not catch it.
handler(s, eff, env) ==
  IF eff = "throw" THEN [s EXCEPT !.crashed = TRUE, !.thrown = TRUE]
  ELSE IF eff = "reload"
  THEN IF s.gen < MaxCycles THEN reload(s, env) ELSE [s EXCEPT !.overflow = TRUE]
  ELSE IF eff = "enqueue"
  THEN IF s.numCalls < MaxCalls
       THEN enqueueJSCall([s EXCEPT !.numCalls = @ + 1], env)
       ELSE [s EXCEPT !.overflow = TRUE]
  ELSE s

\* method->invokeWithBridge(this, paramArrays[i].toList())
invokeWithBridge(s, id, moduleData, m, par, i, eff, env) ==
  IF ~par.ok THEN readDone(s, par)
  ELSE handler(
         logged([readDone(s, par) EXCEPT !.effUsed = TRUE],
                [i |-> i, what |-> "invoke", id |-> id, reg |-> s.gen,
                 md |-> moduleData, method |-> m, params |-> par.v,
                 stale |-> moduleData.gen \in s.deleted,
                 raised |-> eff \in HandlerErrors]),
         eff, env)

\* moduleData->method(methodIDs[i].toInt()) and the null check after it
methodLookup(s, id, moduleData, mid, paramArrays, i, eff, env) ==
  IF ~mid.ok THEN readDone(s, mid)
  ELSE IF ~method(moduleData, mid.v)
  THEN logged(readDone(s, mid),
              [i |-> i, what |-> "no method", id |-> id, reg |-> s.gen])
  ELSE invokeWithBridge(readDone(s, mid), id, moduleData, mid.v,
                        at(paramArrays, i, env, JunkParams), i, eff, env)

\* The null check of the descriptor found for moduleIDs[i]
moduleLookup(s, id, methodIDs, paramArrays, i, eff, env) ==
  IF s.modules[id] = NullMD
  THEN logged(s, [i |-> i, what |-> "no module", id |-> id, reg |-> s.gen])
  ELSE methodLookup(s, id, s.modules[id], at(methodIDs, i, env, JunkInts),
                    paramArrays, i, eff, env)

\* One iteration of the dispatch loop of processResult, for index i (from 1).
dispatchEntry(s, moduleIDs, methodIDs, paramArrays, i, eff, env) ==
  moduleLookup([s EXCEPT !.modules = lookup(s.modules, moduleIDs[i])],
               moduleIDs[i], methodIDs, paramArrays, i, eff, env)

\* Mutant: the loop ends at the first entry that does not resolve.
RECURSIVE dispatchFrom_break(_, _, _, _, _, _, _)
dispatchFrom_break(s, moduleIDs, methodIDs, paramArrays, i, effs, env) ==
  IF s.crashed \/ i > Len(moduleIDs) THEN s
  ELSE IF i > 1 /\ Len(s.lastDispatch.log) < i - 1 THEN s
  ELSE IF s.lastDispatch.log # << >>
          /\ s.lastDispatch.log[Len(s.lastDispatch.log)].what # "invoke"
  THEN s
  ELSE dispatchFrom_break(
         dispatchEntry(s, moduleIDs, methodIDs, paramArrays, i,
                       IF i <= Len(effs) THEN effs[i] ELSE "none", env),
         moduleIDs, methodIDs, paramArrays, i + 1, effs, env)

\* Mutant: the loop runs from the last entry to the first.
RECURSIVE dispatchFrom_reverse(_, _, _, _, _, _, _)
dispatchFrom_reverse(s, moduleIDs, methodIDs, paramArrays, i, effs, env) ==
  IF s.crashed \/ i > Len(moduleIDs) THEN s
  ELSE dispatchFrom_reverse(
         dispatchEntry(s, moduleIDs, methodIDs, paramArrays, Len(moduleIDs) - i + 1,
                       IF Len(moduleIDs) - i + 1 <= Len(effs)
                       THEN effs[Len(moduleIDs) - i + 1] ELSE "none", env),
         moduleIDs, methodIDs, paramArrays, i + 1, effs, env)

RECURSIVE dispatchFrom(_, _, _, _, _, _, _)
dispatchFrom(s, moduleIDs, methodIDs, paramArrays, i, effs, env) ==
  IF s.crashed \/ i > Len(moduleIDs) THEN s
  ELSE dispatchFrom(
         dispatchEntry(s, moduleIDs, methodIDs, paramArrays, i,
                       IF i <= Len(effs) THEN effs[i] ELSE "none", env),
         moduleIDs, methodIDs, paramArrays, i + 1, effs, env)

NoDispatch == [valid |-> FALSE]

\* processResult is entered with doc.
entered(s, doc) ==
  [s EXCEPT !.lastDispatch =
     [valid |-> TRUE, doc |-> doc, log |-> << >>, critical |-> FALSE,
      pre |-> Snapshot(s), post |-> Snapshot(s), call |-> << >>]]

\* processResult is left.
left(s) == [s EXCEPT !.lastDispatch.post = Snapshot(s)]

\* The three lists have been read from the document; the loop follows.
dispatched(s, moduleIDs, methodIDs, paramArrays, effs, env) ==
  IF ~moduleIDs.ok \/ ~methodIDs.ok \/ ~paramArrays.ok
  THEN [s EXCEPT !.crashed = TRUE, !.envUsed = TRUE]
  ELSE left(dispatchFrom(
              [s EXCEPT !.envUsed = @ \/ moduleIDs.ub \/ methodIDs.ub \/ paramArrays.ub],
              moduleIDs.v, methodIDs.v, paramArrays.v, 1, effs, env))

\* Mutant: a null document is taken for one that is not an array.
processResult_nullError(s, doc, effs, env) ==
  IF s.crashed THEN s
  ELSE IF doc.kind # "array"
  THEN [entered(s, doc) EXCEPT !.lastDispatch.critical = TRUE]
  ELSE dispatched(entered(s, doc),
                  at(doc.fields, FieldRequestModuleIDs, env, JunkLists),
                  at(doc.fields, FieldMethodIDs, env, JunkLists),
                  at(doc.fields, FieldParams, env, JunkParamArrays),
                  effs, env)

processResult(s, doc, effs, env) ==
  IF s.crashed THEN s
  ELSE IF doc.kind = "null" THEN entered(s, doc)
  ELSE IF doc.kind # "array"
  THEN [entered(s, doc) EXCEPT !.lastDispatch.critical = TRUE]
  ELSE dispatched(entered(s, doc),
                  at(doc.fields, FieldRequestModuleIDs, env, JunkLists),
                  at(doc.fields, FieldMethodIDs, env, JunkLists),
                  at(doc.fields, FieldParams, env, JunkParamArrays),
                  effs, env)

-----------------------------------------------------------------------------
(* Batches the script side can answer with *)

Entry(id, m, params) == [id |-> id, method |-> m, params |-> params]

\* moduleIDs, methodIndices and params of a list of calls
Ids(es) == [i \in 1..Len(es) |-> es[i].id]
Methods(es) == [i \in 1..Len(es) |-> es[i].method]
Params(es) == [i \in 1..Len(es) |-> es[i].params]

BatchDoc(es) == ArrayDoc(<< Ids(es), Methods(es), Params(es) >>)

Front(q) == SubSeq(q, 1, Len(q) - 1)

\* Documents that violate the wire shape: a field list shorter or longer than
\* the others, or fewer than three fields.
MalformedDocs(es) ==
  IF es = << >> THEN {ArrayDoc(<< >>), ArrayDoc(<< << >>, << >> >>)}
  ELSE {ArrayDoc(<< Front(Ids(es)), Methods(es), Params(es) >>),
        ArrayDoc(<< Ids(es), Front(Methods(es)), Params(es) >>),
        ArrayDoc(<< Ids(es), Methods(es), Front(Params(es)) >>),
        ArrayDoc(<< Ids(es), Methods(es) >>)}

WellFormed(doc) ==
  /\ doc.kind = "array"
  /\ Len(doc.fields) = 3
  /\ Len(doc.fields[1]) = Len(doc.fields[2])
  /\ Len(doc.fields[2]) = Len(doc.fields[3])

\* Calls of the life cycle specification: to a module every registry has.
LifeEntries == {Entry(0, 0, << >>)}

LifeDocs ==
  {NullDoc, ObjectDoc} \cup {BatchDoc(es) : es \in SeqsUpTo(LifeEntries, MaxLen)}

\* The first ID that a registry without loaded modules does not have: every
\* module a loader returns adds one ID.
ExtraId ==
  Len(internalModules \o pluginModules([loader |-> << >>, so |-> << >>]) \o specialModules)

\* Calls of the dispatch specification: the calls of section 8's scenario and
\* a call to a module only a registry with a plugin module has.
DispatchEntries ==
  {Entry(0, 1, << >>), Entry(1, 0, << "x" >>), Entry(0, 5, << >>),
   Entry(ExtraId, 0, << "y" >>)}


-----------------------------------------------------------------------------
(* Initial state: the bridge as constructed *)

Init ==
  /\ ready = FALSE
  /\ executorName = "ReactNetExecutor"
  /\ executor = NullExec
  /\ nam = FALSE
  /\ sourceCode = NullSrc
  /\ modules = EmptyMap
  /\ gen = 0
  /\ numExec = 0
  /\ numSrc = 0
  /\ deferred = {}
  /\ destroyed = {}
  /\ connections = [e \in Execs |-> 0]
  /\ execOps = [e \in Execs |-> << >>]
  /\ calls = [e \in Execs |-> << >>]
  /\ scripts = [e \in Execs |-> 0]
  /\ loading = {}
  /\ loaded = {}
  /\ scriptTimers = << >>
  /\ drainTimers = << >>
  /\ numCalls = 0
  /\ crashed = FALSE
  /\ redboxShown = FALSE
  /\ readyChanged = << >>
  /\ readyBy = << >>
  /\ lastDispatch = NoDispatch
  /\ lastReload = NoSnapshot
  /\ deleted = {}
  /\ built = [g \in 1..MaxCycles |-> EmptyMap]
  /\ registrations = [g \in 1..MaxCycles |-> NoRegistration]
  /\ invoked = << >>

\* A slot has run to completion within the bounds of the model.
Done(t) == ~t.overflow /\ Commit(t)

\* The environments of the life cycle specification: no loader returns a
\* module object.
LifeEnvs == {env \in Envs : env.loader = << >> /\ env.so = << >>}

\* The executor names of the life cycle specification: the default one and one
\* that names no registered type.
LifeNames == {"ReactNetExecutor", "Unregistered"}

DefaultEnv == [loader |-> << >>, so |-> << >>, ub |-> "crash"]

\* The decisions of the environment that a slot can tell apart, given its
\* outcome t0 under the default decisions: all of E if it asked for one.
Asked(t0, E) == IF t0.envUsed THEN E ELSE {DefaultEnv}

NoEffects(n) == [i \in 1..n |-> "none"]

-----------------------------------------------------------------------------
(* Calls into the bridge *)

\* The properties are set while the bridge is being set up, before init().
SetNetworkAccessManager ==
  /\ ~crashed
  /\ gen = 0
  /\ ~nam
  /\ Commit([S EXCEPT !.nam = TRUE])

SetExecutorName(Names) ==
  /\ ~crashed
  /\ gen = 0
  /\ \E name \in Names :
       /\ name # executorName
       /\ Commit([S EXCEPT !.executorName = name])

CallInit(E) ==
  /\ ~crashed
  /\ gen = 0
  /\ \E env \in Asked(init(S, DefaultEnv), E) : Done(init(S, env))

CallReload(E) ==
  /\ ~crashed
  /\ gen \in 1..(MaxCycles - 1)
  /\ \E env \in Asked(reload(S, DefaultEnv), E) : Done(reload(S, env))

CallEnqueueJSCall(E) ==
  /\ ~crashed
  /\ gen > 0
  /\ numCalls < MaxCalls
  /\ \E env \in Asked(enqueueJSCall([S EXCEPT !.numCalls = @ + 1], DefaultEnv), E) : Done(enqueueJSCall([S EXCEPT !.numCalls = @ + 1], env))

CallInvokeAndProcess(E) ==
  /\ ~crashed
  /\ gen > 0
  /\ numCalls < MaxCalls
  /\ \E env \in Asked(invokeAndProcess([S EXCEPT !.numCalls = @ + 1], DefaultEnv), E) : Done(invokeAndProcess([S EXCEPT !.numCalls = @ + 1], env))

-----------------------------------------------------------------------------
(* Events delivered by the Qt event loop *)

\* The ReactSourceCode object src emits sourceCodeChanged.
sourcesFinished(s, src) ==
  [s EXCEPT !.loading = @ \ {src},
            !.loaded = @ \cup {src},
            !.scriptTimers = Append(@, [src |-> src, gen |-> s.gen])]

SourcesFinished ==
  /\ ~crashed
  /\ \E src \in loading : Done(sourcesFinished(S, src))

\* The ReactSourceCode object src emits loadFailed.
sourcesLoadFailed(s, src) ==
  [s EXCEPT !.loading = @ \ {src}, !.redboxShown = TRUE]

SourcesLoadFailed ==
  /\ ~crashed
  /\ \E src \in loading : Done(sourcesLoadFailed(S, src))

\* The lambda of sourcesFinished, 200 ms later.
\* The executor has been handed the application script.
scriptStarted(s) ==
  IF s.crashed \/ s.executor \in s.destroyed THEN s
  ELSE [s EXCEPT !.scripts[s.executor] = @ + 1]

scriptTimer(s, env) ==
  scriptStarted(
    issue([s EXCEPT !.scriptTimers = Tail(@)],
          [op |-> "script", gen |-> s.gen, src |-> s.sourceCode,
           code |-> s.sourceCode \in s.loaded, timer |-> Head(s.scriptTimers)],
          env))

ScriptTimer(E) ==
  /\ ~crashed
  /\ scriptTimers # << >>
  /\ \E env \in Asked(scriptTimer(S, DefaultEnv), E) : Done(scriptTimer(S, env))

\* Executor e emits applicationScriptDone: the slot runs once per connection
\* and starts a 0 ms timer each time.
RECURSIVE timersAdded(_, _, _)
timersAdded(q, tm, n) == IF n = 0 THEN q ELSE timersAdded(Append(q, tm), tm, n - 1)

applicationScriptDone(s, e) ==
  [s EXCEPT !.scripts[e] = @ - 1,
            !.drainTimers = timersAdded(@, [exec |-> e, gen |-> s.gen],
                                        s.connections[e])]

ApplicationScriptDone ==
  /\ ~crashed
  /\ \E e \in Execs :
       /\ e \notin destroyed
       /\ scripts[e] > 0
       /\ Done(applicationScriptDone(S, e))

\* The lambda of applicationScriptDone.
drainTimer(s, env) ==
  executeJSCall([s EXCEPT !.drainTimers = Tail(@)],
                [kind |-> "flush", gen |-> s.gen, sig |-> Head(s.drainTimers)],
                env)

DrainTimer(E) ==
  /\ ~crashed
  /\ drainTimers # << >>
  /\ \E env \in Asked(drainTimer(S, DefaultEnv), E) : Done(drainTimer(S, env))

\* The callback the bridge passed with the request at the head of executor
\* e's queue, run with the document the script side answered.
\* What follows processResult in the callback of request call of executor e:
\* setReady(true) in the callback of a flushedQueue request.
\* Mutant: the callback ends after processResult.
afterResult_noReady(s, e, call) == s

afterResult(s, e, call) ==
  IF call.kind # "flush" \/ s.crashed \/ s.ready THEN s
  ELSE [setReady(s, TRUE) EXCEPT !.readyBy = [call |-> call, gen |-> s.gen,
                                             executor |-> e]]

\* processResult has run for the answer to request call.
answered(s, call) ==
  IF s.crashed THEN s ELSE [s EXCEPT !.lastDispatch.call = call]

\* An exception of a handler has left the callback.  The callback runs in a
\* slot of the executor, and an exception that leaves a slot is undefined
\* behaviour: the process terminates, or the exception is dropped further up
\* and the rest of the callback is lost.
unwound(s, call, env) ==
  IF ~s.thrown THEN s
  ELSE [s EXCEPT !.crashed = (env.ub = "crash"), !.envUsed = TRUE,
                 !.lastDispatch.call = call]

callback(s, e, doc, effs, env) ==
  unwound(
    afterResult(
      answered(processResult([s EXCEPT !.calls[e] = Tail(@)], doc, effs, env),
               Head(s.calls[e])),
      e, Head(s.calls[e])),
    Head(s.calls[e]), env)

\* Executor e answers its oldest request with doc, and the handlers the batch
\* invokes do what effs says.
Effects(t0, n, H) == IF t0.effUsed THEN [1..n -> H] ELSE {NoEffects(n)}

Answer(e, doc, n, E, H) ==
  \E effs \in Effects(callback(S, e, doc, NoEffects(n), DefaultEnv), n, H) :
        \E env \in Asked(callback(S, e, doc, effs, DefaultEnv), E) : Done(callback(S, e, doc, effs, env))

ExecutorCallbackWith(Docs, n, E, H) ==
  /\ ~crashed
  /\ \E e \in Execs :
       /\ e \notin destroyed
       /\ calls[e] # << >>
       /\ \E doc \in Docs : Answer(e, doc, n, E, H)

\* The handlers return normally.
ExecutorCallback(Docs, n, E) == ExecutorCallbackWith(Docs, n, E, HandlerEffects)

\* The deferred delete of executor e: its pending requests die with it.
deferredDelete(s, e) ==
  [s EXCEPT !.deferred = @ \ {e},
            !.destroyed = @ \cup {e},
            !.calls[e] = << >>,
            !.scripts[e] = 0]

DeferredDelete ==
  /\ ~crashed
  /\ \E e \in deferred : Done(deferredDelete(S, e))

Next ==
  \/ SetNetworkAccessManager
  \/ SetExecutorName(LifeNames)
  \/ CallInit(LifeEnvs)
  \/ CallReload(LifeEnvs)
  \/ CallEnqueueJSCall(LifeEnvs)
  \/ CallInvokeAndProcess(LifeEnvs)
  \/ SourcesFinished
  \/ SourcesLoadFailed
  \/ ScriptTimer(LifeEnvs)
  \/ ApplicationScriptDone
  \/ DrainTimer(LifeEnvs)
  \/ ExecutorCallback(LifeDocs, MaxLen, LifeEnvs)
  \/ DeferredDelete

Spec == Init /\ [][Next]_vars

-----------------------------------------------------------------------------
(* The dispatch specification: the bridge up to the first batch it processes, *)
(* with every batch shape the script side can answer with.                    *)

DispatchDocs ==
  {NullDoc, ObjectDoc}
  \cup {BatchDoc(es) : es \in SeqsUpTo(DispatchEntries, MaxBatchLen)}
  \cup UNION {MalformedDocs(es) : es \in SeqsUpTo(DispatchEntries, MaxBatchLen)}

FirstBatch ==
  /\ lastDispatch = NoDispatch
  /\ ExecutorCallback(DispatchDocs, MaxBatchLen, Envs)

NextDispatch ==
  \/ CallInit(Envs)
  \/ CallReload(Envs)
  \/ CallEnqueueJSCall(Envs)
  \/ FirstBatch
  \/ DeferredDelete

SpecDispatch == Init /\ [][NextDispatch]_vars

-----------------------------------------------------------------------------
(* The start-up specification: the life cycle with the scheduling the Qt     *)
(* event loop, the source loader and the executor provide.  A posted event   *)
(* or a timer is delivered, a load ends with one of its two signals, and the *)
(* executor completes the script and answers every request it was given.     *)

\* What the script side answers with in the start-up specification.
LiveDocs == {NullDoc, BatchDoc(<< Entry(0, 0, << >>) >>)}

NextLive ==
  \/ SetNetworkAccessManager
  \/ CallInit(LifeEnvs)
  \/ CallReload(LifeEnvs)
  \/ SourcesFinished
  \/ SourcesLoadFailed
  \/ ScriptTimer(LifeEnvs)
  \/ ApplicationScriptDone
  \/ DrainTimer(LifeEnvs)
  \/ ExecutorCallback(LiveDocs, 1, LifeEnvs)
  \/ DeferredDelete

SpecLive ==
  /\ Init
  /\ [][NextLive]_vars
  /\ WF_vars(SourcesFinished \/ SourcesLoadFailed)
  /\ WF_vars(ScriptTimer(LifeEnvs))
  /\ WF_vars(ApplicationScriptDone)
  /\ WF_vars(DrainTimer(LifeEnvs))
  /\ WF_vars(ExecutorCallback(LiveDocs, 1, LifeEnvs))

-----------------------------------------------------------------------------
(* The handler specification: the first batch the bridge processes, with     *)
(* handlers that return, call back into the bridge or raise an error.        *)

HandlerDocs == {BatchDoc(es) : es \in SeqsUpTo(DispatchEntries, MaxBatchLen)}

HandlerBatch ==
  /\ lastDispatch = NoDispatch
  /\ ExecutorCallbackWith(HandlerDocs, MaxBatchLen, LifeEnvs,
                          HandlerEffects \cup HandlerErrors)

NextHandlers ==
  \/ CallInit(LifeEnvs)
  \/ CallReload(LifeEnvs)
  \/ CallEnqueueJSCall(LifeEnvs)
  \/ HandlerBatch
  \/ DeferredDelete

SpecHandlers == Init /\ [][NextHandlers]_vars

-----------------------------------------------------------------------------
(* The registry specification: the registry builds of init() and reload(),   *)
(* with every list of module objects the loaders can return.                 *)

NextRegistry ==
  \/ SetNetworkAccessManager
  \/ SetExecutorName(ExecutorNames)
  \/ CallInit(Envs)
  \/ CallReload(Envs)
  \/ SourcesFinished
  \/ SourcesLoadFailed
  \/ DeferredDelete

SpecRegistry == Init /\ [][NextRegistry]_vars

-----------------------------------------------------------------------------
(* Properties *)

IsInvoke(entry) == entry.what = "invoke"

NumTrue(q) == Cardinality({k \in DOMAIN q : q[k]})

\* C1: ready becomes true at most once per init()/reload() cycle, and only in
\* the callback of a flushedQueue request that was issued in the current
\* cycle, to the current executor, for a script completion that this executor
\* signalled in the current cycle.
C1_ReadyOnlyByOwnDrain ==
  /\ NumTrue(readyChanged) <= gen
  /\ ready =>
       /\ readyBy.call.kind = "flush"
       /\ readyBy.call.gen = gen
       /\ readyBy.gen = gen
       /\ readyBy.executor = executor
       /\ readyBy.call.sig.gen = gen
       /\ readyBy.call.sig.exec = executor

\* C2: a batch whose request was submitted before a reload() and answered
\* after it invokes no method of the registry.
C2_StaleBatchIgnored ==
  (lastDispatch.valid /\ lastDispatch.call.gen < lastDispatch.pre.gen) =>
    \A k \in DOMAIN lastDispatch.log : ~IsInvoke(lastDispatch.log[k])

\* Module ID id and method index m resolve in registry reg.
Resolves(reg, id, m) ==
  /\ id \in DOMAIN reg
  /\ reg[id] # NullMD
  /\ m \in 0..(reg[id].methods - 1)

\* C3: in a well-formed batch every entry is handled exactly once and in place:
\* a resolvable entry is invoked on the module and method it names with its
\* own parameter list, any other entry is reported as one error, and the
\* entries after it are still handled.
C3_EachEntryDispatchedOnce ==
  (lastDispatch.valid /\ WellFormed(lastDispatch.doc)) =>
    LET ids == lastDispatch.doc.fields[1]
        ms == lastDispatch.doc.fields[2]
        ps == lastDispatch.doc.fields[3]
        log == lastDispatch.log
    IN  /\ Len(log) = Len(ids)
        /\ \A i \in DOMAIN log :
             /\ log[i].i = i
             /\ IF Resolves(built[log[i].reg], ids[i], ms[i])
                THEN /\ IsInvoke(log[i])
                     /\ log[i].md = built[log[i].reg][ids[i]]
                     /\ log[i].method = ms[i]
                     /\ log[i].params = ps[i]
                ELSE log[i].what \in {"no module", "no method"}

\* The scenario of the claim: calls (0,1), (1,0) and (0,5) in one batch.
C3_Witness ==
  /\ lastDispatch.valid
  /\ lastDispatch.doc = BatchDoc(<< Entry(0, 1, << >>), Entry(1, 0, << "x" >>),
                                    Entry(0, 5, << >>) >>)
  /\ Len(lastDispatch.log) = 3
  /\ IsInvoke(lastDispatch.log[1])
  /\ IsInvoke(lastDispatch.log[2])
  /\ lastDispatch.log[3].what = "no method"

\* C4: a batch that violates the wire shape invokes no handler, is reported
\* and leaves the bridge running and unchanged.
C4_MalformedRejected ==
  (lastDispatch.valid /\ lastDispatch.doc.kind = "array"
     /\ ~WellFormed(lastDispatch.doc)) =>
    /\ \A k \in DOMAIN lastDispatch.log : ~IsInvoke(lastDispatch.log[k])
    /\ lastDispatch.critical
    /\ ~crashed
    /\ lastDispatch.post = lastDispatch.pre

\* C5: the invocations of one batch happen in increasing index order and no
\* invocation of another batch lies between them.
C5_BatchOrder ==
  \A j, k \in DOMAIN invoked :
    (j < k /\ invoked[j].batch = invoked[k].batch) =>
      /\ invoked[j].i < invoked[k].i
      /\ \A l \in j..k : invoked[l].batch = invoked[j].batch

\* A batch with two invocations, and an invocation of another batch.
C5_Witness ==
  \E j, k, l \in DOMAIN invoked :
    /\ j < k
    /\ invoked[j].batch = invoked[k].batch
    /\ invoked[l].batch # invoked[j].batch

\* C6: no handler of a module descriptor that reload() deleted is invoked, and
\* an ID the current registry has no module for is reported as unresolved.
C6_NoStaleInvocation ==
  lastDispatch.valid =>
    \A k \in DOMAIN lastDispatch.log :
      LET entry == lastDispatch.log[k]
      IN  /\ IsInvoke(entry) => (~entry.stale /\ entry.md.gen = entry.reg)
          /\ entry.id \notin DOMAIN built[entry.reg] => entry.what = "no module"

\* After a reload, a call with an ID that only the registry before had.
C6_Witness ==
  /\ lastDispatch.valid
  /\ \E k \in DOMAIN lastDispatch.log :
       LET entry == lastDispatch.log[k]
       IN  /\ entry.reg = 2
           /\ entry.id \in DOMAIN built[1]
           /\ entry.id \notin DOMAIN built[2]
           /\ entry.what = "no module"

\* C7: a processResult run during which no reload() happens leaves the module
\* map as it was.
C7_RegistryUnchanged ==
  (lastDispatch.valid /\ lastDispatch.post.gen = lastDispatch.pre.gen) =>
    lastDispatch.post.modules = lastDispatch.pre.modules

\* C8: all entries of a batch are resolved against the same registry.
C8_OneRegistryPerBatch ==
  lastDispatch.valid =>
    \A j, k \in DOMAIN lastDispatch.log :
      lastDispatch.log[j].reg = lastDispatch.log[k].reg

\* C9: when reload() returns on a bridge that has a network access manager,
\* ready is false, the executor is a new one and the old one awaits its
\* deferred delete, the registry holds only descriptors of this cycle and those
\* of the cycle before are deleted, the configuration is injected and the
\* source load is requested.
C9_ReloadReturns ==
  (lastReload.valid /\ nam) =>
    /\ ~lastReload.post.ready
    /\ lastReload.post.executor # lastReload.pre.executor
    /\ lastReload.post.executor > lastReload.pre.numExec
    /\ lastReload.pre.executor \in lastReload.outcome.deferred
    /\ \A id \in DOMAIN lastReload.post.modules :
         lastReload.post.modules[id].gen = lastReload.post.gen
    /\ \A id \in DOMAIN lastReload.pre.modules :
         lastReload.pre.modules[id] # NullMD =>
           lastReload.pre.modules[id].gen \in lastReload.outcome.deleted
    /\ lastReload.outcome.injected
    /\ lastReload.outcome.loadRequested

\* C10: on every executor, the configuration is injected before the
\* application script is executed and before any script call is issued.
C10_InjectedFirst ==
  \A e \in Execs :
    \A k \in DOMAIN execOps[e] :
      execOps[e][k].op \in {"script", "call"} =>
        \E j \in 1..(k - 1) : execOps[e][j].op = "inject"

\* The executor of a reload() cycle has run the script and taken a call.
C10_Witness ==
  /\ gen = 2
  /\ executor = 2
  /\ \E k \in DOMAIN execOps[2] : execOps[2][k].op = "script"
  /\ \E k \in DOMAIN execOps[2] : execOps[2][k].op = "call"

IsRegistered(e) == e.id # NoId

\* The entries of a registration log that got an ID, in order.
RegisteredIn(g) == SelectSeq(registrations[g].log, IsRegistered)

\* The loop of initModules handled every object of its list, in order.
Handled(g) ==
  /\ Len(registrations[g].log) = Len(registrations[g].objects)
  /\ \A i \in DOMAIN registrations[g].log :
       registrations[g].log[i].obj = registrations[g].objects[i]

ScriptGiven(e) == \E k \in DOMAIN execOps[e] : execOps[e][k].op = "script"

\* C12: on a bridge that was given no network access manager, init() and
\* reload() request no source load, no executor is handed the application
\* script, and ready stays false.
C12_NoManagerNoLoad ==
  (gen >= 1 /\ ~nam) =>
    /\ loading = {}
    /\ loaded = {}
    /\ scriptTimers = << >>
    /\ \A e \in Execs : ~ScriptGiven(e) /\ scripts[e] = 0
    /\ ~ready
    /\ readyChanged = << >>

\* init() and reload() without a manager, and a script call answered.
C12_Witness ==
  /\ gen = 2
  /\ ~nam
  /\ lastDispatch.valid
  /\ lastDispatch.pre.gen = 2

\* C13: after setupExecutor has run, in init() and in reload(), the current
\* executor is a live executor object that was initialised in this cycle and
\* whose applicationScriptDone signal is connected to the bridge.
C13_ExecutorAfterSetup ==
  (gen >= 1 /\ ~crashed) =>
    /\ executor # NullExec
    /\ executor \notin destroyed
    /\ connections[executor] >= 1
    /\ \E k \in DOMAIN execOps[executor] :
         execOps[executor][k] = [op |-> "init", gen |-> gen]


\* C14: once init() has run on a bridge with a network access manager, ready
\* becomes true unless the load fails or a reload() intervenes, and ready turns
\* false again only in a reload().
C14_EventuallyReady ==
  /\ (gen = 1 /\ nam) ~> (ready \/ gen > 1 \/ redboxShown)
  /\ [][(ready /\ ~ready') => gen' > gen]_vars

\* The bridge became ready in the cycle of init().
C14_Witness ==
  /\ gen = 1
  /\ nam
  /\ ready
  /\ readyBy.call.kind = "flush"
  /\ ~redboxShown


\* C15: when a handler of a batch raises an error, the bridge keeps running,
\* every entry after it is still handled, and the error of that entry is
\* reported by processResult.
C15_HandlerErrorContained ==
  lastDispatch.valid =>
    \A k \in DOMAIN lastDispatch.log :
      (IsInvoke(lastDispatch.log[k]) /\ lastDispatch.log[k].raised) =>
        /\ ~crashed
        /\ \A i \in 1..Len(lastDispatch.doc.fields[1]) :
             i > lastDispatch.log[k].i =>
               \E j \in DOMAIN lastDispatch.log : lastDispatch.log[j].i = i
        /\ \E j \in DOMAIN lastDispatch.log :
             /\ lastDispatch.log[j].what = "handler error"
             /\ lastDispatch.log[j].i = lastDispatch.log[k].i


\* The step in which the oldest request of executor e is answered with a
\* null document.
NullAnswer(e) ==
  /\ calls[e] # << >>
  /\ calls'[e] = Tail(calls[e])
  /\ destroyed' = destroyed
  /\ lastDispatch'.valid
  /\ lastDispatch'.doc = NullDoc
  /\ lastDispatch'.call = Head(calls[e])

\* C16: a null answer invokes no handler, reports no error and changes nothing
\* of the bridge; after a null answer to the flushedQueue request the bridge is
\* ready, after one to another request ready is as before.
C16_NullBatchNoError ==
  [][\A e \in Execs :
       NullAnswer(e) =>
         /\ invoked' = invoked
         /\ lastDispatch'.log = << >>
         /\ ~lastDispatch'.critical
         /\ ~crashed'
         /\ lastDispatch'.post = lastDispatch'.pre
         /\ UNCHANGED << executorName, executor, nam, sourceCode, modules, gen,
                         numExec, numSrc, deferred, connections, execOps,
                         scripts, loading, loaded, scriptTimers, drainTimers,
                         numCalls, redboxShown, lastReload, deleted, built,
                         registrations >>
         /\ IF Head(calls[e]).kind = "flush" THEN ready' ELSE ready' = ready]_vars

\* The bridge became ready by a null answer to its flushedQueue request.
C16_Witness ==
  /\ lastDispatch.valid
  /\ lastDispatch.doc = NullDoc
  /\ lastDispatch.call.kind = "flush"
  /\ ready
  /\ readyBy.call = lastDispatch.call


\* The names of the modules registered in cycle g, in registration order.
RECURSIVE NamesFrom(_, _)
NamesFrom(q, i) ==
  IF i > Len(q) THEN << >> ELSE << q[i].obj.name >> \o NamesFrom(q, i + 1)

LastOf(q, n) == SubSeq(q, Len(q) - n + 1, Len(q))

\* C17 as stated: in every registry build the source-code provider and the UI
\* manager are the last two modules registered, with no module between or
\* after them.
C17_TwoSyntheticLast ==
  \A g \in 1..MaxCycles :
    registrations[g].log # << >> =>
      LastOf(NamesFrom(RegisteredIn(g), 1), 2) = << "ReactSourceCode", "ReactUIManager" >>

\* C17 as amended: in every registry build the last three modules registered
\* are the source-code provider, the image loader and the UI manager, in this
\* order, and every internal, loader and plugin module that is registered is
\* registered before them.
C17_SyntheticLast ==
  \A g \in 1..MaxCycles :
    registrations[g].log # << >> =>
      LET names == NamesFrom(RegisteredIn(g), 1)
          n == Len(names)
      IN  /\ Handled(g)
          /\ n >= 3
          /\ LastOf(names, 3) = << "ReactSourceCode", "ReactImageLoader", "ReactUIManager" >>
          /\ \A i \in 1..(n - 3) :
               names[i] \notin {"ReactSourceCode", "ReactImageLoader", "ReactUIManager"}
          /\ n - 3 = Cardinality({i \in 1..(Len(registrations[g].objects) - 3) :
                                    registrations[g].objects[i].iface})

\* The registry build of a reload() with a plugin module and that of an
\* init() without one.
C17_Witness ==
  /\ gen = 2
  /\ Len(RegisteredIn(2)) = Len(RegisteredIn(1)) + 1
  /\ \E i \in DOMAIN registrations[2].objects : registrations[2].objects[i] = PluginObj
  /\ RegisteredIn(2)[Len(RegisteredIn(2))].obj.name = "ReactUIManager"

\* C18: an object without the module interface gets no setBridge call and no
\* registry entry and is warned about, and the objects with the interface
\* before and after it in the list are registered all the same.
C18_InvalidModuleSkipped ==
  \A g \in 1..MaxCycles :
    LET objects == registrations[g].objects
        log == registrations[g].log
    IN  /\ Handled(g)
        /\ \A i \in DOMAIN log :
             IF objects[i].iface
             THEN /\ log[i].setBridge
                  /\ ~log[i].warned
                  /\ log[i].id \in DOMAIN built[g]
                  /\ built[g][log[i].id].name = objects[i].name
             ELSE /\ ~log[i].setBridge
                  /\ log[i].warned
                  /\ log[i].id = NoId
                  /\ \A k \in DOMAIN built[g] : built[g][k].name # objects[i].name
        /\ Cardinality(DOMAIN built[g]) =
             Cardinality({i \in DOMAIN objects : objects[i].iface})

\* A registry build whose list has an object without the module interface
\* between objects that have it.
C18_Witness ==
  \E g \in 1..MaxCycles :
    \E i, j, k \in DOMAIN registrations[g].log :
      /\ i < j
      /\ j < k
      /\ ~registrations[g].objects[j].iface
      /\ registrations[g].log[i].id \in DOMAIN built[g]
      /\ registrations[g].log[k].id \in DOMAIN built[g]


\* Operation k of executor e is an execution of the application script.
IsScript(e, k) == execOps[e][k].op = "script"

\* C19: the application script is executed at most once per cycle, on the
\* executor that was created in the cycle, by the timer of a source-finished
\* event of the cycle, and with the source code whose load completed in it.
C19_ScriptOncePerCycle ==
  \A e \in Execs :
    \A k \in DOMAIN execOps[e] :
      IsScript(e, k) =>
        /\ execOps[e][k].timer.gen = execOps[e][k].gen
        /\ execOps[e][k].timer.src = execOps[e][k].src
        /\ execOps[e][k].code
        /\ execOps[e][1] = [op |-> "init", gen |-> execOps[e][k].gen]
        /\ \A e2 \in Execs :
             \A j \in DOMAIN execOps[e2] :
               (IsScript(e2, j) /\ execOps[e2][j].gen = execOps[e][k].gen) =>
                 (e2 = e /\ j = k)


\* C20: the readyChanged notifications alternate between "became true" and
\* "became false", the first one being "became true", and ready is the value
\* of the last notification, or false if there was none.
C20_ReadyChangedAlternates ==
  /\ \A k \in DOMAIN readyChanged : readyChanged[k] = (k % 2 = 1)
  /\ ready = (Len(readyChanged) % 2 = 1)

\* Ready in the cycle of init(), not ready after reload(), ready again; and a
\* reload() of a bridge that was not ready.
C20_Witness ==
  /\ Len(readyChanged) = 3
  /\ ready
  /\ gen = 2


====
